---- MODULE Spec2Model ----
(***************************************************************************)
(* A model of the rules engine of mlouii/civtest: the turn/round           *)
(* coordinator (game.py), the unit state machine (unit.py), reachability   *)
(* (movement.py) and the city tile-claim engine (city.py).                 *)
(***************************************************************************)
EXTENDS Integers, Sequences, FiniteSets, TLC

(***************************************************************************)
(* Bounds of the model.                                                    *)
(***************************************************************************)
MapW == 2
MapH == 2
CityMapW == 4
CityMapH == 2
MaxPlayers == 3
MaxTurn == 2
MaxPop == 5
MaxRadius == 3
ReachW == 3
ReachH == 3
GenW == 3
GenH == 3
MaxCount == 3

(***************************************************************************)
(* Program constants.                                                      *)
(***************************************************************************)
SettlerMovePoints == 2
WarriorMovePoints == 4
UnitHp == 100
WarriorAttack == 25
MIN_CITY_SPACING == 2
DefaultPopulation == 5
FirstTurn == 1
DefaultRadius == 1

\* config.py: the ratios of map generation, in thousandths
BASE_WATER_RATIO == 225
FOREST_RATIO == 180
HILL_RATIO == 120
MOUNTAIN_RATIO == 50
PLAINS_RATIO == 140
LAND_SMOOTH_PASSES == 5
\* map.py: the limit of the top-up loop and the share of the ratio it aims at,
\* in tenths
TopUpTries == 500
TopUpShare == 8

None == 0

Abs(n) == IF n < 0 THEN -n ELSE n

\* unit_config.UNIT_TYPES
UNIT_TYPES(kind) ==
    IF kind = "warrior"
    THEN [move_points |-> WarriorMovePoints, hp |-> UnitHp, attack |-> WarriorAttack]
    ELSE [move_points |-> SettlerMovePoints, hp |-> UnitHp, attack |-> 0]

VARIABLES
    width,           \* GameMap.width
    height,          \* GameMap.height
    config,          \* config.MAP_WIDTH and config.MAP_HEIGHT
    terrain,         \* GameMap.tiles: tile -> terrain kind
    gen,             \* GameMap.__init__: the position and the locals of map generation
    players,         \* Game.players: the ids in insertion order
    turn_finished,   \* Game.turn_finished: id -> BOOLEAN
    current_player,  \* Game.current_player (None when there are no players)
    turn,            \* Game.turn, the round counter
    units,           \* Game.units: the ids of the units in the game, in list order
    unit,            \* the unit objects: id -> fields
    unit_ids,        \* Player.unit_ids: player id -> sequence of unit ids
    tile_claim,      \* Tile claim: tile -> (owning city id, owning player id)
    cities,          \* Game.cities: sequence of city objects
    city_ids,        \* Player.city_ids: player id -> sequence of city indexes
    tile_unit,       \* Tile.unit: tile -> the unit id it refers to, or None
    last,            \* the last call of the coordinator and what it returned
    calls            \* number of end_turn calls performed so far

vars == <<width, height, config, terrain, gen, players, turn_finished, current_player, turn, units, unit,
          unit_ids, cities, city_ids, tile_unit, tile_claim, last, calls>>

mapVars == <<width, height, config, terrain, gen, players>>

Tiles == (0 .. width - 1) \X (0 .. height - 1)
unitVars == <<units, unit, unit_ids, tile_unit>>
turnVars == <<turn_finished, current_player, turn, calls>>
cityVars == <<cities, city_ids, tile_claim>>

Range(s) == {s[i] : i \in 1 .. Len(s)}

\* what a call of the coordinator leaves in `last`
Ret(op, ret) == [op |-> op, ret |-> ret]

InGame(u) == u \in Range(units)

\* list comprehension [u for u in lst if u != x]
RECURSIVE Without(_, _)
Without(lst, x) ==
    IF lst = <<>> THEN <<>>
    ELSE IF Head(lst) = x THEN Without(Tail(lst), x)
         ELSE <<Head(lst)>> \o Without(Tail(lst), x)

(***************************************************************************)
(* map.py                                                                  *)
(***************************************************************************)
\* GameMap.get_tile: the tile, or None outside the grid
InBounds(x, y) == 0 <= x /\ x < width /\ 0 <= y /\ y < height

\* GameMap.is_tile_passable
is_tile_passable(x, y) ==
    IF ~InBounds(x, y) THEN FALSE ELSE terrain[<<x, y>>] # "water"

(***************************************************************************)
(* game.py: the turn/round coordinator                                     *)
(***************************************************************************)
\* reset_moves that restores the movement points but leaves the attacked flag
reset_moves_points_only(r) ==
    [r EXCEPT !.moves = UNIT_TYPES(r.unit_type).move_points]

\* reset_moves that clears the attacked flag but leaves the movement points
reset_moves_flag_only(r) == [r EXCEPT !.attacked = FALSE]

\* Unit.reset_moves
reset_moves(r) ==
    [r EXCEPT !.moves = UNIT_TYPES(r.unit_type).move_points, !.attacked = FALSE]

\* the round test that is content with one finished player
AllFinished_any(tf) == \E p \in DOMAIN tf : tf[p]

AllFinished(tf) == \A p \in DOMAIN tf : tf[p]

IndexOf(seq, x) == CHOOSE i \in 1 .. Len(seq) : seq[i] = x

\* the search for the next unfinished player run backward through the ordering
RECURSIVE NextUnfinished_backward(_, _, _)
NextUnfinished_backward(tf, idx, offset) ==
    IF offset > Len(players) - 1 THEN current_player
    ELSE LET next_pid == players[((idx - 1 - offset) % Len(players)) + 1]
         IN IF ~tf[next_pid] THEN next_pid
            ELSE NextUnfinished_backward(tf, idx, offset + 1)

\* the search left out: the ended player stays current
NextUnfinished_none(tf, idx, offset) == current_player

\* the for-offset loop of end_turn_for_current_player
RECURSIVE NextUnfinished(_, _, _)
NextUnfinished(tf, idx, offset) ==
    IF offset > Len(players) - 1 THEN current_player
    ELSE LET next_pid == players[((idx - 1 + offset) % Len(players)) + 1]
         IN IF ~tf[next_pid] THEN next_pid
            ELSE NextUnfinished(tf, idx, offset + 1)

\* next_round that leaves the finished flags as the round's last call set them
next_round_finished_kept == [p \in Range(players) |-> TRUE]

\* Game.next_round, as the values it leaves behind
next_round_finished == [p \in Range(players) |-> FALSE]
next_round_current == IF players # <<>> THEN players[1] ELSE current_player
next_round_unit == [u \in DOMAIN unit |-> IF InGame(u) THEN reset_moves(unit[u]) ELSE unit[u]]

\* Game.end_turn_for_current_player; op names the entry point that called it
end_turn_for_current_player(op) ==
    LET tf == IF current_player \in DOMAIN turn_finished
              THEN [turn_finished EXCEPT ![current_player] = TRUE]
              ELSE turn_finished
    IN /\ calls' = calls + 1
       /\ IF AllFinished(tf)
          THEN /\ turn' = turn + 1
               /\ unit' = next_round_unit
               /\ turn_finished' = next_round_finished
               /\ current_player' = next_round_current
               /\ last' = Ret(op, TRUE)
          ELSE /\ turn' = turn
               /\ unit' = unit
               /\ turn_finished' = tf
               /\ current_player' =
                     NextUnfinished(tf, IndexOf(players, current_player), 1)
               /\ last' = Ret(op, FALSE)

EndTurn ==
    /\ turn < MaxTurn
    /\ current_player # None
    /\ end_turn_for_current_player("end_turn")
    /\ UNCHANGED <<mapVars, units, unit_ids, tile_unit, cityVars>>

\* Game.check_and_auto_end_turn
CheckAutoEnd ==
    /\ turn < MaxTurn
    /\ current_player # None
    /\ LET player_units == {u \in Range(units) : unit[u].owner = current_player}
       IN IF player_units # {} /\ \A u \in player_units : unit[u].moves = 0
          THEN /\ end_turn_for_current_player("auto_end")
               /\ UNCHANGED <<mapVars, units, unit_ids, tile_unit, cityVars>>
          ELSE /\ last' = Ret("auto_end", FALSE)
               /\ UNCHANGED <<mapVars, turnVars, unitVars, cityVars>>

\* Game.add_player: a player registered after the game was constructed; the
\* new Player has no units and no cities, and turn_finished is left alone
AddPlayer ==
    /\ Len(players) <= MaxPlayers
    /\ LET p == Len(players) + 1
       IN /\ players' = Append(players, p)
          /\ unit_ids' = [q \in DOMAIN unit_ids \cup {p} |->
                              IF q = p THEN <<>> ELSE unit_ids[q]]
          /\ city_ids' = [q \in DOMAIN city_ids \cup {p} |->
                              IF q = p THEN <<>> ELSE city_ids[q]]
    /\ UNCHANGED <<width, height, config, terrain, gen, turnVars, units, unit,
                   cities, tile_unit, tile_claim, last>>

(***************************************************************************)
(* unit.py: movement                                                       *)
(***************************************************************************)
\* can_move without the test of the remaining movement points
can_move_unbudgeted(r, to_x, to_y) ==
    /\ Abs(to_x - r.x) + Abs(to_y - r.y) = 1
    /\ is_tile_passable(to_x, to_y)

\* can_move that accepts the diagonal neighbours too
can_move_diagonal(r, to_x, to_y) ==
    /\ r.moves >= 1
    /\ Abs(to_x - r.x) <= 1 /\ Abs(to_y - r.y) <= 1
    /\ <<to_x, to_y>> # <<r.x, r.y>>
    /\ is_tile_passable(to_x, to_y)

\* Unit.can_move
can_move(r, to_x, to_y) ==
    /\ r.moves >= 1
    /\ Abs(to_x - r.x) + Abs(to_y - r.y) = 1
    /\ is_tile_passable(to_x, to_y)

\* a move that spends no movement point
move_without_cost(r, to_x, to_y) ==
    IF can_move(r, to_x, to_y)
    THEN [r EXCEPT !.x = to_x, !.y = to_y]
    ELSE r

\* Unit.move, as the unit it leaves behind
move(r, to_x, to_y) ==
    IF can_move(r, to_x, to_y)
    THEN [r EXCEPT !.x = to_x, !.y = to_y, !.moves = r.moves - 1]
    ELSE r

\* a walk that passes over a step it cannot take and carries on with the next
RECURSIVE move_along_path_skipping(_, _, _)
move_along_path_skipping(r, path, i) ==
    IF i > Len(path) THEN [r |-> r, steps |-> 0]
    ELSE IF can_move(r, path[i][1], path[i][2])
         THEN LET rest == move_along_path_skipping(move(r, path[i][1], path[i][2]), path, i + 1)
              IN [r |-> rest.r, steps |-> rest.steps + 1]
         ELSE move_along_path_skipping(r, path, i + 1)

\* Unit.move_along_path: the unit after the walk and the number of steps taken
RECURSIVE move_along_path(_, _, _)
move_along_path(r, path, i) ==
    IF i > Len(path) THEN [r |-> r, steps |-> 0]
    ELSE IF can_move(r, path[i][1], path[i][2])
         THEN LET rest == move_along_path(move(r, path[i][1], path[i][2]), path, i + 1)
              IN [r |-> rest.r, steps |-> rest.steps + 1]
         ELSE [r |-> r, steps |-> 0]

OffTurn(u) == unit[u].owner # current_player

\* the targets a caller names for a unit: its four orthogonal neighbours, its
\* own tile, a diagonal neighbour and a tile two steps away
MoveTargets(r) ==
    {<<r.x + d[1], r.y + d[2]>> :
        d \in {<<-1, 0>>, <<1, 0>>, <<0, -1>>, <<0, 1>>, <<0, 0>>, <<1, 1>>, <<2, 0>>}}

Move(u, to) ==
    /\ InGame(u)
    /\ unit' = [unit EXCEPT ![u] = move(unit[u], to[1], to[2])]
    /\ UNCHANGED <<mapVars, turnVars, units, unit_ids, tile_unit, cityVars, last>>

(***************************************************************************)
(* movement.py: compute_reachable                                          *)
(***************************************************************************)
\* the directions tried north and south before west and east
Dirs_vertical_first == <<<<0, -1>>, <<0, 1>>, <<-1, 0>>, <<1, 0>>>>

Dirs == <<<<-1, 0>>, <<1, 0>>, <<0, -1>>, <<0, 1>>>>

\* the for-direction loop: enqueue the unvisited non-water neighbours of the
\* dequeued entry e. The bounds test is against the configured size; a
\* neighbour inside it but outside the map has no tile, and reading its
\* terrain is a fault
RECURSIVE Enqueue(_, _, _, _)
Enqueue(i, e, queue, visited) ==
    IF i > Len(Dirs) THEN [queue |-> queue, visited |-> visited, fault |-> FALSE]
    ELSE LET n == <<e.pos[1] + Dirs[i][1], e.pos[2] + Dirs[i][2]>>
         IN IF 0 <= n[1] /\ n[1] < config.MAP_WIDTH /\ 0 <= n[2] /\ n[2] < config.MAP_HEIGHT
            THEN IF ~InBounds(n[1], n[2])
                 THEN [queue |-> queue, visited |-> visited, fault |-> TRUE]
                 ELSE IF terrain[n] # "water" /\ n \notin visited
                 THEN Enqueue(i + 1, e,
                              Append(queue, [pos |-> n, path |-> Append(e.path, n),
                                             dist |-> e.dist + 1]),
                              visited \cup {n})
                 ELSE Enqueue(i + 1, e, queue, visited)
            ELSE Enqueue(i + 1, e, queue, visited)

\* the while-queue loop with a cut-off that expands one step too far
RECURSIVE Bfs_one_step_further(_, _, _, _, _)
Bfs_one_step_further(u, queue, visited, valid_moves, path_map) ==
    IF queue = <<>>
    THEN [valid_moves |-> valid_moves, path_map |-> path_map, fault |-> FALSE]
    ELSE LET e == Head(queue)
             is_occupied == \E v \in Range(units) :
                               v # u /\ unit[v].x = e.pos[1] /\ unit[v].y = e.pos[2]
             add == e.dist > 0 /\ ~is_occupied
             vm == IF add THEN Append(valid_moves, e.pos) ELSE valid_moves
             pm == IF add
                   THEN [t \in DOMAIN path_map \cup {e.pos} |->
                            IF t = e.pos THEN e.path ELSE path_map[t]]
                   ELSE path_map
         IN IF e.dist > unit[u].moves
            THEN Bfs_one_step_further(u, Tail(queue), visited, vm, pm)
            ELSE LET q == Enqueue(1, e, Tail(queue), visited)
                 IN IF q.fault
                    THEN [valid_moves |-> vm, path_map |-> pm, fault |-> TRUE]
                    ELSE Bfs_one_step_further(u, q.queue, q.visited, vm, pm)

\* the while-queue loop
RECURSIVE Bfs(_, _, _, _, _)
Bfs(u, queue, visited, valid_moves, path_map) ==
    IF queue = <<>>
    THEN [valid_moves |-> valid_moves, path_map |-> path_map, fault |-> FALSE]
    ELSE LET e == Head(queue)
             is_occupied == \E v \in Range(units) :
                               v # u /\ unit[v].x = e.pos[1] /\ unit[v].y = e.pos[2]
             add == e.dist > 0 /\ ~is_occupied
             vm == IF add THEN Append(valid_moves, e.pos) ELSE valid_moves
             pm == IF add
                   THEN [t \in DOMAIN path_map \cup {e.pos} |->
                            IF t = e.pos THEN e.path ELSE path_map[t]]
                   ELSE path_map
         IN IF e.dist >= unit[u].moves
            THEN Bfs(u, Tail(queue), visited, vm, pm)
            ELSE LET q == Enqueue(1, e, Tail(queue), visited)
                 IN IF q.fault
                    THEN [valid_moves |-> vm, path_map |-> pm, fault |-> TRUE]
                    ELSE Bfs(u, q.queue, q.visited, vm, pm)

compute_reachable(u) ==
    LET start == <<unit[u].x, unit[u].y>>
    IN Bfs(u, <<[pos |-> start, path |-> <<start>>, dist |-> 0]>>, {start},
           <<>>, [t \in {} |-> <<>>])

\* the paths a caller hands to move_along_path: the paths of the unit's
\* reachable set, and two-step paths whose second step is any tile
CallerPaths(u) ==
    LET pm == compute_reachable(u).path_map
        start == <<unit[u].x, unit[u].y>>
    IN {pm[t] : t \in DOMAIN pm}
       \cup {<<start, <<start[1] + 1, start[2]>>, b>> : b \in Tiles}

MoveAlongPath(u, path) ==
    /\ InGame(u)
    /\ ~compute_reachable(u).fault
    /\ LET w == move_along_path(unit[u], path, 2)
       IN unit' = [unit EXCEPT ![u] = w.r]
    /\ UNCHANGED <<mapVars, turnVars, units, unit_ids, tile_unit, cityVars, last>>

(***************************************************************************)
(* unit.py: combat                                                         *)
(***************************************************************************)
IsCombat(r) == r.unit_type = "warrior"

\* the part of the game a unit operation changes
World == [unit |-> unit, units |-> units, tile_unit |-> tile_unit]

\* can_attack without the test of the remaining movement points
combat_can_attack_unbudgeted(ra, rt) ==
    /\ ra.owner # rt.owner
    /\ ~ra.attacked

\* CombatUnit.can_attack
combat_can_attack(ra, rt) ==
    /\ ra.owner # rt.owner
    /\ ra.moves >= 1
    /\ ~ra.attacked

\* MeleeUnit.can_attack
can_attack(ra, rt) ==
    /\ combat_can_attack(ra, rt)
    /\ Abs(ra.x - rt.x) + Abs(ra.y - rt.y) = 1

\* CombatUnit.take_damage: Player has no attribute `units`, so the hasattr
\* guard skips the roster; Tile.unit is cleared when it refers to the unit
combat_take_damage(w, t, amount) ==
    LET hp == w.unit[t].hp - amount
        pos == <<w.unit[t].x, w.unit[t].y>>
        hit == [w.unit EXCEPT ![t].hp = hp]
    IN IF hp <= 0
       THEN [unit |-> hit,
             units |-> Without(w.units, t),
             tile_unit |-> IF pos \in Tiles /\ w.tile_unit[pos] = t
                           THEN [w.tile_unit EXCEPT ![pos] = None]
                           ELSE w.tile_unit]
       ELSE [w EXCEPT !.unit = hit]

\* a capture that leaves the captured unit the hit points the blow left it
noncombat_take_damage_unhealed(w, t, amount, a) ==
    LET hp == w.unit[t].hp - amount
        pos == <<w.unit[t].x, w.unit[t].y>>
    IN IF hp <= 0
       THEN [unit |-> [w.unit EXCEPT ![t].owner = w.unit[a].owner, ![t].hp = hp],
             units |-> IF t \in Range(w.units) THEN w.units ELSE Append(w.units, t),
             tile_unit |-> IF pos \in Tiles
                           THEN [w.tile_unit EXCEPT ![pos] = t]
                           ELSE w.tile_unit]
       ELSE [w EXCEPT !.unit = [w.unit EXCEPT ![t].hp = hp]]

\* NonCombatUnit.take_damage: capture by a combat attacker
noncombat_take_damage(w, t, amount, a) ==
    LET hp == w.unit[t].hp - amount
        pos == <<w.unit[t].x, w.unit[t].y>>
    IN IF hp <= 0
       THEN [unit |-> [w.unit EXCEPT ![t].owner = w.unit[a].owner,
                                     ![t].hp = UNIT_TYPES(w.unit[t].unit_type).hp],
             units |-> IF t \in Range(w.units) THEN w.units ELSE Append(w.units, t),
             tile_unit |-> IF pos \in Tiles
                           THEN [w.tile_unit EXCEPT ![pos] = t]
                           ELSE w.tile_unit]
       ELSE [w EXCEPT !.unit = [w.unit EXCEPT ![t].hp = hp]]

take_damage(w, t, amount, a) ==
    IF IsCombat(w.unit[t]) THEN combat_take_damage(w, t, amount)
    ELSE noncombat_take_damage(w, t, amount, a)

\* attack_unit that spends one movement point instead of all of them
combat_attack_unit_one_point(w, a, t) ==
    IF ~can_attack(w.unit[a], w.unit[t]) THEN [w |-> w, ret |-> FALSE]
    ELSE LET d == take_damage(w, t, w.unit[a].attack, a)
         IN [w |-> [d EXCEPT !.unit = [d.unit EXCEPT ![a].moves = @ - 1,
                                                     ![a].attacked = TRUE]],
             ret |-> TRUE]

\* CombatUnit.attack_unit, reached through MeleeUnit.attack_unit
combat_attack_unit(w, a, t) ==
    IF ~can_attack(w.unit[a], w.unit[t]) THEN [w |-> w, ret |-> FALSE]
    ELSE LET d == take_damage(w, t, w.unit[a].attack, a)
         IN [w |-> [d EXCEPT !.unit = [d.unit EXCEPT ![a].moves = 0,
                                                     ![a].attacked = TRUE]],
             ret |-> TRUE]

\* MeleeUnit.attack_unit
attack_unit(w, a, t) ==
    IF Abs(w.unit[a].x - w.unit[t].x) + Abs(w.unit[a].y - w.unit[t].y) # 1
    THEN [w |-> w, ret |-> FALSE]
    ELSE combat_attack_unit(w, a, t)

AttackUnit(a, t) ==
    /\ InGame(a) /\ InGame(t) /\ a # t
    /\ IsCombat(unit[a])
    /\ LET res == attack_unit(World, a, t)
       IN /\ unit' = res.w.unit
          /\ units' = res.w.units
          /\ tile_unit' = res.w.tile_unit
    /\ UNCHANGED <<mapVars, turnVars, unit_ids, cityVars, last>>

\* Unit.can_melee_target: the passable orthogonal neighbours of the unit whose
\* Tile.unit is None, in direction order
RECURSIVE can_melee_target(_, _, _)
can_melee_target(w, t, i) ==
    IF i > Len(Dirs) THEN <<>>
    ELSE LET adj == <<w.unit[t].x + Dirs[i][1], w.unit[t].y + Dirs[i][2]>>
             rest == can_melee_target(w, t, i + 1)
         IN IF is_tile_passable(adj[1], adj[2]) /\ w.tile_unit[adj] = None
            THEN <<adj>> \o rest
            ELSE rest

\* the attack of target_enemy_unit with its deselect-and-zero tail
attack_and_end(w, a, t) ==
    LET res == attack_unit(w, a, t)
    IN IF res.ret
       THEN [w |-> [res.w EXCEPT !.unit = [res.w.unit EXCEPT ![a].selected = FALSE,
                                                              ![a].moves = 0]],
             ret |-> TRUE]
       ELSE [w |-> w, ret |-> FALSE]

\* the for-tile loop of target_enemy_unit: the first targetable tile the path
\* map reaches within the unit's movement points is walked to, then the loop ends
RECURSIVE approach(_, _, _, _, _)
approach(w, a, t, tiles, path_map) ==
    IF tiles = <<>> THEN [w |-> w, ret |-> FALSE]
    ELSE LET tile == Head(tiles)
         IN IF tile \in DOMAIN path_map /\ Len(path_map[tile]) - 1 <= w.unit[a].moves
            THEN LET walked == move_along_path(w.unit[a], path_map[tile], 2).r
                     w2 == [w EXCEPT !.unit = [w.unit EXCEPT ![a] = walked]]
                 IN IF can_attack(w2.unit[a], w2.unit[t])
                    THEN LET res == attack_and_end(w2, a, t)
                         IN IF res.ret THEN res ELSE [w |-> w2, ret |-> FALSE]
                    ELSE [w |-> w2, ret |-> FALSE]
            ELSE approach(w, a, t, Tail(tiles), path_map)

\* MeleeUnit.target_enemy_unit
target_enemy_unit(w, a, t, path_map) ==
    LET first == IF can_attack(w.unit[a], w.unit[t])
                 THEN attack_and_end(w, a, t)
                 ELSE [w |-> w, ret |-> FALSE]
    IN IF first.ret THEN first
       ELSE approach(w, a, t, can_melee_target(w, t, 1), path_map)

TargetEnemyUnit(a, t) ==
    /\ InGame(a) /\ InGame(t) /\ a # t
    /\ IsCombat(unit[a])
    /\ ~compute_reachable(a).fault
    /\ LET res == target_enemy_unit(World, a, t, compute_reachable(a).path_map)
       IN /\ unit' = res.w.unit
          /\ units' = res.w.units
          /\ tile_unit' = res.w.tile_unit
    /\ UNCHANGED <<mapVars, turnVars, unit_ids, cityVars, last>>

(***************************************************************************)
(* main.py: the click that moves the selected unit                         *)
(***************************************************************************)
\* a path from s to t that runs along the row first and then along the column
RECURSIVE LPath(_, _)
LPath(s, t) ==
    IF s = t THEN <<s>>
    ELSE LET n == IF s[1] < t[1] THEN <<s[1] + 1, s[2]>>
                  ELSE IF s[1] > t[1] THEN <<s[1] - 1, s[2]>>
                  ELSE IF s[2] < t[2] THEN <<s[1], s[2] + 1>>
                  ELSE <<s[1], s[2] - 1>>
         IN <<s>> \o LPath(n, t)

\* the valid_moves and path_map arguments a caller holds for unit u: the ones
\* compute_reachable returns now, and ones that name a path to every other
\* tile of the map whatever the movement points the unit has left
GivenReach(u) ==
    LET start == <<unit[u].x, unit[u].y>>
        now == compute_reachable(u)
        others == {t \in Tiles : t # start}
    IN {[valid_moves |-> Range(now.valid_moves), path_map |-> now.path_map],
        [valid_moves |-> others, path_map |-> [t \in others |-> LPath(start, t)]]}

\* the click handler without the test of the path's cost
click_move_unbudgeted(r, t, valid_moves, path_map) ==
    IF t \in valid_moves /\ t \in DOMAIN path_map
    THEN LET path == path_map[t]
             moved == [r EXCEPT !.x = path[Len(path)][1], !.y = path[Len(path)][2],
                                !.moves = r.moves - (Len(path) - 1)]
         IN IF moved.moves > 0 THEN moved ELSE [moved EXCEPT !.selected = FALSE]
    ELSE r

\* handle_events, a click on tile t with a unit selected: the unit is put on
\* every step of the path in turn, one movement point each, when the path's
\* cost is within the unit's movement points; a unit left without points is
\* deselected
click_move(r, t, valid_moves, path_map) ==
    IF t \in valid_moves /\ t \in DOMAIN path_map
       /\ Len(path_map[t]) - 1 <= r.moves
    THEN LET path == path_map[t]
             moved == [r EXCEPT !.x = path[Len(path)][1], !.y = path[Len(path)][2],
                                !.moves = r.moves - (Len(path) - 1)]
         IN IF moved.moves > 0 THEN moved ELSE [moved EXCEPT !.selected = FALSE]
    ELSE r

ClickMove(u, t, g) ==
    /\ InGame(u)
    /\ unit' = [unit EXCEPT ![u] = click_move(unit[u], t, g.valid_moves, g.path_map)]
    /\ UNCHANGED <<mapVars, turnVars, units, unit_ids, tile_unit, cityVars, last>>

\* target_enemy_unit called with the path map the caller holds
TargetWithPathMap(a, t, g) ==
    /\ InGame(a) /\ InGame(t) /\ a # t
    /\ IsCombat(unit[a])
    /\ LET res == target_enemy_unit(World, a, t, g.path_map)
       IN /\ unit' = res.w.unit
          /\ units' = res.w.units
          /\ tile_unit' = res.w.tile_unit
    /\ UNCHANGED <<mapVars, turnVars, unit_ids, cityVars, last>>

(***************************************************************************)
(* city.py: the tile-claim engine                                          *)
(***************************************************************************)
\* the claim a tile carries (owning city id, owning player id), or none
NoClaim == [city_id |-> None, owner_id |-> None]

\* Tile.claim: a tile claimed by another city refuses the claim and signals
\* it to the caller; the signal is a return value, never a fault
claim(cl, t, city_id, owner_id) ==
    IF cl[t].city_id \in {None, city_id}
    THEN [cl EXCEPT ![t] = [city_id |-> city_id, owner_id |-> owner_id]]
    ELSE cl

\* Tile.release
release(cl, t) == [cl EXCEPT ![t] = NoClaim]

\* City.__init__ with the default population and the centre as only worked
\* tile; the fresh uuid is the position the city will take in game.cities
NewCity(city_id, owner, x, y) ==
    [city_id |-> city_id, owner_id |-> owner, x |-> x, y |-> y,
     population |-> DefaultPopulation, worked_tiles |-> <<<<x, y>>>>]

\* City.claim_center_tile
claim_center_tile(c, cl) ==
    IF InBounds(c.x, c.y) THEN claim(cl, <<c.x, c.y>>, c.city_id, c.owner_id) ELSE cl

\* City.is_adjacent_to_worked
is_adjacent_to_worked(c, tx, ty) ==
    \E i \in 1 .. Len(c.worked_tiles) :
        LET wt == c.worked_tiles[i]
        IN /\ Abs(wt[1] - tx) <= 1
           /\ Abs(wt[2] - ty) <= 1
           /\ (wt[1] # tx \/ wt[2] # ty)

\* the scan for candidates that takes tiles of any terrain
RECURSIVE get_potential_worked_tiles_any_terrain(_, _, _, _)
get_potential_worked_tiles_any_terrain(c, others, radius, k) ==
    LET side == 2 * radius + 1
    IN IF k >= side * side THEN <<>>
       ELSE LET tx == c.x - radius + (k \div side)
                ty == c.y - radius + (k % side)
                rest == get_potential_worked_tiles_any_terrain(c, others, radius, k + 1)
            IN IF /\ <<tx, ty>> \notin Range(c.worked_tiles)
                  /\ InBounds(tx, ty)
                  /\ ~\E j \in 1 .. Len(others) : <<tx, ty>> \in Range(others[j].worked_tiles)
                  /\ is_adjacent_to_worked(c, tx, ty)
               THEN <<<<tx, ty>>>> \o rest
               ELSE rest

\* City.get_potential_worked_tiles: the scan over the radius window, dx
\* ascending then dy ascending, from its k-th cell on; others are the cities
\* of all_cities other than c
RECURSIVE get_potential_worked_tiles(_, _, _, _)
get_potential_worked_tiles(c, others, radius, k) ==
    LET side == 2 * radius + 1
    IN IF k >= side * side THEN <<>>
       ELSE LET tx == c.x - radius + (k \div side)
                ty == c.y - radius + (k % side)
                rest == get_potential_worked_tiles(c, others, radius, k + 1)
            IN IF /\ <<tx, ty>> \notin Range(c.worked_tiles)
                  /\ InBounds(tx, ty)
                  /\ terrain[<<tx, ty>>] \notin {"water", "mountain"}
                  /\ ~\E j \in 1 .. Len(others) : <<tx, ty>> \in Range(others[j].worked_tiles)
                  /\ is_adjacent_to_worked(c, tx, ty)
               THEN <<<<tx, ty>>>> \o rest
               ELSE rest

Manhattan(c, t) == Abs(t[1] - c.x) + Abs(t[2] - c.y)

\* the choice among the candidates that lets ties go to the last candidate of
\* least key
Nearest_last_tie(c, candidates) ==
    LET i == CHOOSE i \in 1 .. Len(candidates) :
                 /\ \A j \in 1 .. Len(candidates) :
                        Manhattan(c, candidates[i]) <= Manhattan(c, candidates[j])
                 /\ \A j \in i + 1 .. Len(candidates) :
                        Manhattan(c, candidates[j]) > Manhattan(c, candidates[i])
    IN candidates[i]

\* candidates.sort(key=...)[0]: the sort is stable, so the first candidate of
\* least key
Nearest(c, candidates) ==
    LET i == CHOOSE i \in 1 .. Len(candidates) :
                 /\ \A j \in 1 .. Len(candidates) :
                        Manhattan(c, candidates[i]) <= Manhattan(c, candidates[j])
                 /\ \A j \in 1 .. i - 1 :
                        Manhattan(c, candidates[j]) > Manhattan(c, candidates[i])
    IN candidates[i]

\* expand_worked_tiles with `if` for `while`: at most one tile is added
expand_worked_tiles_once(c, cl, others, radius) ==
    IF Len(c.worked_tiles) >= c.population THEN [c |-> c, cl |-> cl]
    ELSE LET candidates == get_potential_worked_tiles(c, others, radius, 0)
         IN IF candidates = <<>> THEN [c |-> c, cl |-> cl]
            ELSE LET chosen == Nearest(c, candidates)
                 IN [c |-> [c EXCEPT !.worked_tiles = Append(@, chosen)],
                     cl |-> claim(cl, chosen, c.city_id, c.owner_id)]

\* City.expand_worked_tiles: the city and the tile claims it leaves behind
RECURSIVE expand_worked_tiles(_, _, _, _)
expand_worked_tiles(c, cl, others, radius) ==
    IF Len(c.worked_tiles) >= c.population THEN [c |-> c, cl |-> cl]
    ELSE LET candidates == get_potential_worked_tiles(c, others, radius, 0)
         IN IF candidates = <<>> THEN [c |-> c, cl |-> cl]
            ELSE LET chosen == Nearest(c, candidates)
                 IN expand_worked_tiles(
                        [c EXCEPT !.worked_tiles = Append(@, chosen)],
                        claim(cl, chosen, c.city_id, c.owner_id),
                        others, radius)

\* contract_worked_tiles with pop(0) for pop(): the oldest worked tile goes
RECURSIVE contract_worked_tiles_oldest(_, _)
contract_worked_tiles_oldest(c, cl) ==
    IF Len(c.worked_tiles) <= c.population THEN [c |-> c, cl |-> cl]
    ELSE LET removed == c.worked_tiles[1]
         IN contract_worked_tiles_oldest(
                [c EXCEPT !.worked_tiles = Tail(@)],
                IF InBounds(removed[1], removed[2]) /\ cl[removed].city_id = c.city_id
                THEN release(cl, removed) ELSE cl)

\* City.contract_worked_tiles
RECURSIVE contract_worked_tiles(_, _)
contract_worked_tiles(c, cl) ==
    IF Len(c.worked_tiles) <= c.population THEN [c |-> c, cl |-> cl]
    ELSE LET removed == c.worked_tiles[Len(c.worked_tiles)]
         IN contract_worked_tiles(
                [c EXCEPT !.worked_tiles = SubSeq(@, 1, Len(@) - 1)],
                IF InBounds(removed[1], removed[2]) /\ cl[removed].city_id = c.city_id
                THEN release(cl, removed) ELSE cl)

\* City.update_worked_tiles
update_worked_tiles(c, cl, others, radius) ==
    LET e == expand_worked_tiles(c, cl, others, radius)
    IN contract_worked_tiles(e.c, e.cl)

\* City.claim_initial_tiles with the default radius: the centre is claimed,
\* then the worked tiles are updated; the new city is not yet in all_cities
claim_initial_tiles(c, cl, all_cities) ==
    update_worked_tiles(c, claim_center_tile(c, cl), all_cities, 1)

OtherCities(i) == SubSeq(cities, 1, i - 1) \o SubSeq(cities, i + 1, Len(cities))

\* the population of a city is set from outside the engine
SetPopulation(i, p) ==
    /\ i \in 1 .. Len(cities)
    /\ p # cities[i].population
    /\ cities' = [cities EXCEPT ![i].population = p]
    /\ UNCHANGED <<mapVars, turnVars, unitVars, city_ids, tile_claim, last>>

UpdateWorkedTiles(i, radius) ==
    /\ i \in 1 .. Len(cities)
    /\ LET res == update_worked_tiles(cities[i], tile_claim, OtherCities(i), radius)
       IN /\ cities' = [cities EXCEPT ![i] = res.c]
          /\ tile_claim' = res.cl
    /\ UNCHANGED <<mapVars, turnVars, unitVars, city_ids, last>>

(***************************************************************************)
(* unit.py: found_city                                                     *)
(***************************************************************************)
\* the guards of NonCombatUnit.found_city, in the order the code tests them
found_not_allowed(r) ==
    r.unit_type # "settler" \/ r.owner # current_player

found_tile_refused(r) ==
    \/ \E j \in 1 .. Len(cities) : cities[j].x = r.x /\ cities[j].y = r.y
    \/ ~is_tile_passable(r.x, r.y)

\* a proximity test that lets a city be founded at exactly the minimum spacing
found_too_close_strict(r) ==
    \E j \in 1 .. Len(cities) :
        /\ Abs(cities[j].x - r.x) < MIN_CITY_SPACING
        /\ Abs(cities[j].y - r.y) < MIN_CITY_SPACING

\* the proximity loop: its branch reads DEFAULT_STATUS_MSGS["proximity_city"],
\* a key gui_config does not define, so the call ends in a KeyError
found_too_close(r) ==
    \E j \in 1 .. Len(cities) :
        /\ Abs(cities[j].x - r.x) <= MIN_CITY_SPACING
        /\ Abs(cities[j].y - r.y) <= MIN_CITY_SPACING

\* NonCombatUnit.found_city: what it returns, whether it ends in a fault, and
\* the cities, unit list and city roster it leaves behind
found_city(u) ==
    LET r == unit[u]
        same == [ret |-> FALSE, fault |-> FALSE, cities |-> cities, units |-> units,
                 city_ids |-> city_ids, tile_claim |-> tile_claim]
        new_city == claim_initial_tiles(
                        NewCity(Len(cities) + 1, current_player, r.x, r.y),
                        tile_claim, cities)
    IN IF found_not_allowed(r) \/ found_tile_refused(r) THEN same
       ELSE IF found_too_close(r) THEN [same EXCEPT !.fault = TRUE]
       ELSE [ret |-> TRUE, fault |-> FALSE,
             cities |-> Append(cities, new_city.c),
             units |-> Without(units, u),
             city_ids |-> IF current_player \in DOMAIN city_ids
                          THEN [city_ids EXCEPT ![current_player] =
                                   Append(@, Len(cities) + 1)]
                          ELSE city_ids,
             tile_claim |-> new_city.cl]

FoundCity(u) ==
    /\ InGame(u)
    /\ ~IsCombat(unit[u])
    /\ LET res == found_city(u)
       IN /\ cities' = res.cities
          /\ units' = res.units
          /\ city_ids' = res.city_ids
          /\ tile_claim' = res.tile_claim
    /\ UNCHANGED <<mapVars, turnVars, unit, unit_ids, tile_unit, last>>

(***************************************************************************)
(* map.py: map generation and map queries                                  *)
(***************************************************************************)
\* the generator once GameMap.__init__ has returned
Generated(base_water) ==
    [phase |-> "done", grid |-> <<>>, passes |-> 0, tries |-> 0, base_water |-> base_water]

\* GameMap._smooth: the loops over dx and dy run over -1, 0, 1, so the cell
\* itself is among the cells counted
_smooth(grid) ==
    [c \in Tiles |->
        LET water_neighbors ==
                Cardinality({n \in Tiles : /\ Abs(n[1] - c[1]) <= 1
                                           /\ Abs(n[2] - c[2]) <= 1
                                           /\ grid[n] = 1})
        IN IF water_neighbors > 3 THEN 1 ELSE 0]

total_water(grid) == Cardinality({c \in Tiles : grid[c] = 1})

\* int(base_water * width * height * 0.8)
min_water(base_water) == (base_water * width * height * TopUpShare) \div 10000

\* step 2: one smoothing pass
Smooth ==
    /\ gen.phase = "smooth"
    /\ gen.passes < LAND_SMOOTH_PASSES
    /\ gen' = [gen EXCEPT !.grid = _smooth(gen.grid), !.passes = @ + 1]
    /\ UNCHANGED <<width, height, config, terrain, players, turnVars, unitVars,
                   cityVars, last>>

\* step 3: one try of the top-up loop, on a cell drawn at random
TopUp(c) ==
    /\ gen.phase = "smooth"
    /\ gen.passes = LAND_SMOOTH_PASSES
    /\ total_water(gen.grid) < min_water(gen.base_water)
    /\ gen.tries < TopUpTries
    /\ gen' = [gen EXCEPT !.grid = IF gen.grid[c] = 0 THEN [gen.grid EXCEPT ![c] = 1]
                                   ELSE gen.grid,
                          !.tries = @ + 1]
    /\ UNCHANGED <<width, height, config, terrain, players, turnVars, unitVars,
                   cityVars, last>>

\* step 4: the tiles, water or grassland, once the top-up loop has ended
CreateTiles ==
    /\ gen.phase = "smooth"
    /\ gen.passes = LAND_SMOOTH_PASSES
    /\ ~(total_water(gen.grid) < min_water(gen.base_water) /\ gen.tries < TopUpTries)
    /\ terrain' = [c \in Tiles |-> IF gen.grid[c] = 1 THEN "water" ELSE "grassland"]
    /\ gen' = [Generated(gen.base_water) EXCEPT !.phase = "forest"]
    /\ UNCHANGED <<width, height, config, players, turnVars, unitVars, cityVars, last>>

\* the land biomes in the order step 5 adds them, with their ratios
Biomes == <<"forest", "hill", "mountain", "plains">>

BiomeRatio(b) ==
    IF b = "forest" THEN FOREST_RATIO
    ELSE IF b = "hill" THEN HILL_RATIO
    ELSE IF b = "mountain" THEN MOUNTAIN_RATIO ELSE PLAINS_RATIO

\* GameMap._add_land_biomes: at most int(ratio * total_land) grassland tiles,
\* drawn at random in clusters, become the biome; no other tile changes
_add_land_biomes(b, chosen) ==
    LET land == {c \in Tiles : terrain[c] = "grassland"}
        n_tiles == (BiomeRatio(b) * Cardinality(land)) \div 1000
    IN /\ chosen \subseteq land
       /\ Cardinality(chosen) <= n_tiles
       /\ terrain' = [c \in Tiles |-> IF c \in chosen THEN b ELSE terrain[c]]

\* step 5: one biome after the other
AddLandBiomes ==
    /\ \E i \in 1 .. Len(Biomes) :
          /\ gen.phase = Biomes[i]
          /\ \E chosen \in SUBSET Tiles : _add_land_biomes(Biomes[i], chosen)
          /\ gen' = [gen EXCEPT !.phase = IF i < Len(Biomes) THEN Biomes[i + 1] ELSE "done"]
    /\ UNCHANGED <<width, height, config, players, turnVars, unitVars, cityVars, last>>

\* the None that get_tile returns outside the map
NoTile == [x |-> None, y |-> None, terrain |-> "None"]

\* get_tile with bounds that include x = width and y = height
get_tile_off_by_one(x, y) ==
    IF 0 <= x /\ x <= width /\ 0 <= y /\ y <= height
    THEN [x |-> x, y |-> y,
          terrain |-> IF <<x, y>> \in Tiles THEN terrain[<<x, y>>] ELSE "grassland"]
    ELSE NoTile

\* GameMap.get_tile: the tile at (x, y) as its coordinates and terrain, or None
get_tile(x, y) ==
    IF 0 <= x /\ x < width /\ 0 <= y /\ y < height
    THEN [x |-> x, y |-> y, terrain |-> terrain[<<x, y>>]]
    ELSE NoTile

\* GameMap.neighbors: the tiles of the four directions that get_tile finds
NeighborDirs == <<<<-1, 0>>, <<1, 0>>, <<0, -1>>, <<0, 1>>>>

RECURSIVE neighbors_from(_, _, _)
neighbors_from(x, y, i) ==
    IF i > Len(NeighborDirs) THEN <<>>
    ELSE LET t == get_tile(x + NeighborDirs[i][1], y + NeighborDirs[i][2])
         IN IF t # NoTile THEN <<t>> \o neighbors_from(x, y, i + 1)
            ELSE neighbors_from(x, y, i + 1)

neighbors(x, y) == neighbors_from(x, y, 1)

\* Game._find_starting_tiles: the scan runs over x, then y, and keeps the
\* passable tiles that have a passable neighbour until `count` are found
has_passable_neighbor(x, y) ==
    \E i \in 1 .. Len(neighbors(x, y)) :
        is_tile_passable(neighbors(x, y)[i].x, neighbors(x, y)[i].y)

RECURSIVE scan_starting_tiles(_, _, _)
scan_starting_tiles(k, found, count) ==
    IF k >= width * height THEN found
    ELSE LET x == k \div height
             y == k % height
         IN IF get_tile(x, y) # NoTile /\ is_tile_passable(x, y) /\ has_passable_neighbor(x, y)
            THEN IF Len(found) + 1 = count THEN Append(found, <<x, y>>)
                 ELSE scan_starting_tiles(k + 1, Append(found, <<x, y>>), count)
            ELSE scan_starting_tiles(k + 1, found, count)

\* the fallback loop: (len(found), 0) is appended until `count` tiles are there
RECURSIVE fallback_starting_tiles(_, _)
fallback_starting_tiles(found, count) ==
    IF Len(found) < count
    THEN fallback_starting_tiles(Append(found, <<Len(found), 0>>), count)
    ELSE found

_find_starting_tiles(count) ==
    fallback_starting_tiles(scan_starting_tiles(0, <<>>, count), count)

(***************************************************************************)
(* game.py, unit.py, player.py: snapshots                                  *)
(***************************************************************************)
\* Player.__init__: the resources of a player, which no operation changes
DefaultResources == [food |-> 0, prod |-> 0, gold |-> 0]

\* Unit.to_dict with the fields CombatUnit.to_dict and NonCombatUnit.to_dict
\* add: hp for both, attack for combat units only
Unit_to_dict(u) ==
    LET r == unit[u]
        base == [unique_id |-> u, owner |-> r.owner, unit_type |-> r.unit_type,
                 x |-> r.x, y |-> r.y, moves |-> r.moves, selected |-> r.selected,
                 hp |-> r.hp]
    IN IF IsCombat(r)
       THEN [k \in DOMAIN base \cup {"attack"} |->
                IF k = "attack" THEN r.attack ELSE base[k]]
       ELSE base

\* data.get(key): the value in a one-element sequence, or the empty sequence
\* for None
Get(data, key) == IF key \in DOMAIN data THEN <<data[key]>> ELSE <<>>

\* data.get(key, default)
GetOr(data, key, default) == IF key \in DOMAIN data THEN data[key] ELSE default

\* `value if value else default`: 0 is taken for a missing value
OrDefault_falsy(got, default) == IF got # <<>> /\ got[1] # 0 THEN got[1] ELSE default

\* `value if value is not None else default`
OrDefault(got, default) == IF got # <<>> THEN got[1] ELSE default

\* Unit.from_dict: Warrior.from_dict or Settler.from_dict by unit_type, with
\* the defaults of the constructors; the attacked flag starts cleared
Unit_from_dict(data) ==
    LET ut == UNIT_TYPES(data.unit_type)
    IN [owner |-> data.owner, unit_type |-> data.unit_type, x |-> data.x, y |-> data.y,
        moves |-> OrDefault(Get(data, "moves"), ut.move_points),
        hp |-> OrDefault(Get(data, "hp"), ut.hp),
        attack |-> IF data.unit_type = "warrior"
                   THEN OrDefault(Get(data, "attack"), ut.attack) ELSE ut.attack,
        attacked |-> FALSE,
        selected |-> GetOr(data, "selected", FALSE)]

\* Player.to_dict
Player_to_dict(p) ==
    [player_id |-> p, unit_ids |-> unit_ids[p], city_ids |-> city_ids[p],
     resources |-> DefaultResources]

\* GameMap.to_dict: the size of the map and the terrain of every tile
Map_to_dict == [width |-> width, height |-> height, terrain |-> terrain]

\* Game.to_dict: cities and finished flags are not part of the snapshot
Game_to_dict ==
    [map |-> Map_to_dict,
     units |-> [i \in 1 .. Len(units) |-> Unit_to_dict(units[i])],
     players |-> [i \in 1 .. Len(players) |-> Player_to_dict(players[i])],
     current_player |-> current_player,
     turn |-> turn]

\* Game.from_dict: the game Game.__init__ builds from the snapshot
Game_from_dict(data) ==
    LET ids == [i \in 1 .. Len(data.units) |-> data.units[i].unique_id]
        pids == [i \in 1 .. Len(data.players) |-> data.players[i].player_id]
    IN [width |-> data.map.width, height |-> data.map.height,
        terrain |-> data.map.terrain,
        units |-> ids,
        unit |-> [u \in Range(ids) |->
                    Unit_from_dict(data.units[CHOOSE i \in 1 .. Len(ids) : ids[i] = u])],
        players |-> pids,
        unit_ids |-> [p \in Range(pids) |->
                        data.players[CHOOSE i \in 1 .. Len(pids) : pids[i] = p].unit_ids],
        city_ids |-> [p \in Range(pids) |->
                        data.players[CHOOSE i \in 1 .. Len(pids) : pids[i] = p].city_ids],
        resources |-> [p \in Range(pids) |->
                        data.players[CHOOSE i \in 1 .. Len(pids) : pids[i] = p].resources],
        turn_finished |-> [p \in Range(pids) |-> FALSE],
        current_player |-> IF pids = <<>> THEN None
                           ELSE IF data.current_player \in Range(pids)
                           THEN data.current_player ELSE pids[1],
        turn |-> data.turn,
        cities |-> <<>>]

\* the game is replaced by the one read back from its own snapshot; the
\* records of units that had left the game are no part of it, and the new game
\* has seen no end of turn yet
Restore ==
    LET g == Game_from_dict(Game_to_dict)
    IN /\ width' = g.width
       /\ height' = g.height
       /\ terrain' = g.terrain
       /\ players' = g.players
       /\ units' = g.units
       /\ unit' = [u \in DOMAIN unit |-> IF u \in DOMAIN g.unit THEN g.unit[u] ELSE unit[u]]
       /\ unit_ids' = g.unit_ids
       /\ city_ids' = g.city_ids
       /\ turn_finished' = g.turn_finished
       /\ current_player' = g.current_player
       /\ turn' = g.turn
       /\ cities' = g.cities
       /\ tile_unit' = [t \in Tiles |-> None]
       /\ tile_claim' = [t \in Tiles |-> NoClaim]
       /\ last' = Ret("from_dict", TRUE)
       /\ calls' = 0
       /\ UNCHANGED <<config, gen>>

(***************************************************************************)
(* Game start                                                              *)
(***************************************************************************)
\* Warrior.__init__ / Settler.__init__ with the kind's default movement points
NewUnit(kind, owner, pos, hp) ==
    [owner |-> owner, unit_type |-> kind, x |-> pos[1], y |-> pos[2],
     moves |-> UNIT_TYPES(kind).move_points, hp |-> hp,
     attack |-> UNIT_TYPES(kind).attack, attacked |-> FALSE, selected |-> FALSE]

\* GameMap(w, h) with config.MAP_WIDTH = w and config.MAP_HEIGHT = h, as
\* init_game builds it: the last tile of the grid carries a terrain of kinds,
\* the others are grassland
InitMap(w, h, kinds) ==
    /\ width = w
    /\ height = h
    /\ gen = Generated(None)
    /\ config = [MAP_WIDTH |-> w, MAP_HEIGHT |-> h]
    /\ \E k \in kinds :
          terrain = [t \in (0 .. w - 1) \X (0 .. h - 1) |->
                        IF t = <<w - 1, h - 1>> THEN k ELSE "grassland"]

Passable == {t \in Tiles : terrain[t] # "water"}

\* Game.__init__ for the players 1 .. n, the first of them current
InitGame(n) ==
    /\ players = [i \in 1 .. n |-> i]
    /\ turn_finished = [p \in 1 .. n |-> FALSE]
    /\ current_player = 1
    /\ turn = FirstTurn
    /\ cities = <<>>
    /\ city_ids = [p \in 1 .. n |-> <<>>]
    /\ tile_unit = [t \in Tiles |-> None]
    /\ tile_claim = [t \in Tiles |-> NoClaim]
    /\ last = Ret("init", FALSE)
    /\ calls = 0

\* the rosters the players are given with their units
Rosters(n) ==
    [p \in 1 .. n |-> IF p = 1 /\ n = 1 THEN <<1, 2>>
                      ELSE IF p = 1 THEN <<1>>
                      ELSE IF p = n THEN <<2>> ELSE <<>>]

\* a game of two players: a warrior of the first on the first tile, and a
\* wounded warrior or settler of the second on any other passable tile
Terrains == {"grassland", "water", "mountain"}

Init ==
    /\ InitMap(MapW, MapH, Terrains)
    /\ InitGame(2)
    /\ units = <<1, 2>>
    /\ \E k \in {"warrior", "settler"}, p2 \in Passable \ {<<0, 0>>} :
          unit = [u \in {1, 2} |->
                     IF u = 1 THEN NewUnit("warrior", 1, <<0, 0>>, UnitHp)
                     ELSE NewUnit(k, 2, p2, 2 * WarriorAttack)]
    /\ unit_ids = Rosters(2)

Next ==
    \/ EndTurn
    \/ CheckAutoEnd
    \/ \E u \in DOMAIN unit : \E to \in MoveTargets(unit[u]) : Move(u, to)
    \/ \E u \in DOMAIN unit : \E path \in CallerPaths(u) : MoveAlongPath(u, path)
    \/ \E a, t \in DOMAIN unit : AttackUnit(a, t)
    \/ \E a, t \in DOMAIN unit : TargetEnemyUnit(a, t)
    \/ \E u \in DOMAIN unit : FoundCity(u)

Spec == Init /\ [][Next]_vars

\* the same game, saved and read back at any moment
NextSnapshot ==
    \/ EndTurn
    \/ \E u \in DOMAIN unit : \E to \in MoveTargets(unit[u]) : Move(u, to)
    \/ \E a, t \in DOMAIN unit : AttackUnit(a, t)
    \/ \E u \in DOMAIN unit : FoundCity(u)
    \/ Restore

SpecSnapshot == Init /\ [][NextSnapshot]_vars

\* the coordinator with 1 .. MaxPlayers players: a warrior of the first player
\* and a settler of the last, who move and end their turns
InitTurn ==
    /\ InitMap(MapW, MapH, {"grassland"})
    /\ \E n \in 1 .. MaxPlayers :
          /\ InitGame(n)
          /\ unit = [u \in {1, 2} |->
                        IF u = 1 THEN NewUnit("warrior", 1, <<0, 0>>, UnitHp)
                        ELSE NewUnit("settler", n, <<MapW - 1, MapH - 1>>, UnitHp)]
          /\ unit_ids = Rosters(n)
    /\ units = <<1, 2>>

NextTurn ==
    \/ EndTurn
    \/ CheckAutoEnd
    \/ \E u \in DOMAIN unit : \E to \in MoveTargets(unit[u]) : Move(u, to)

SpecTurn == InitTurn /\ [][NextTurn]_vars

\* the coordinator whose current player always eventually ends their turn
SpecTurnLive == InitTurn /\ [][NextTurn]_vars /\ WF_vars(EndTurn)

\* the coordinator with players joining a game under way
NextPlayers ==
    \/ EndTurn
    \/ AddPlayer
    \/ \E u \in DOMAIN unit : \E to \in MoveTargets(unit[u]) : Move(u, to)

SpecPlayers == InitTurn /\ [][NextPlayers]_vars

\* the tile-claim engine: two settlers of one player, the first on the first
\* tile and the second on any passable tile of the last two columns, found
\* cities, whose
\* populations change and which are updated
InitCity ==
    /\ InitMap(CityMapW, CityMapH, Terrains)
    /\ InitGame(1)
    /\ units = <<1, 2>>
    /\ \E p1 \in {<<0, 0>>}, p2 \in {t \in Passable : t[1] >= CityMapW - 2} :
          /\ unit = [u \in {1, 2} |-> NewUnit("settler", 1, IF u = 1 THEN p1 ELSE p2, UnitHp)]
    /\ unit_ids = Rosters(1)

NextCity ==
    \/ \E u \in DOMAIN unit : FoundCity(u)
    \/ \E i \in 1 .. Len(cities), p \in 1 .. MaxPop : SetPopulation(i, p)
    \/ \E i \in 1 .. Len(cities), radius \in 1 .. MaxRadius : UpdateWorkedTiles(i, radius)

SpecCity == InitCity /\ [][NextCity]_vars

\* the founding of cities in a game of two players: a settler of the first
\* player on the first tile, a settler of either player on any passable tile of
\* the last two columns; cities are updated with the default radius only, as
\* every caller of update_worked_tiles does
InitFound ==
    /\ InitMap(CityMapW, CityMapH, Terrains)
    /\ InitGame(2)
    /\ units = <<1, 2>>
    /\ \E o \in 1 .. 2, p2 \in {t \in Passable : t[1] >= CityMapW - 2} :
          /\ unit = [u \in {1, 2} |->
                        NewUnit("settler", IF u = 1 THEN 1 ELSE o,
                                IF u = 1 THEN <<0, 0>> ELSE p2, UnitHp)]
          /\ unit_ids = [p \in 1 .. 2 |->
                            IF p = o THEN (IF p = 1 THEN <<1, 2>> ELSE <<2>>)
                            ELSE IF p = 1 THEN <<1>> ELSE <<>>]

NextFound ==
    \/ \E u \in DOMAIN unit : FoundCity(u)
    \/ EndTurn
    \/ \E i \in 1 .. Len(cities), p \in 1 .. MaxPop : SetPopulation(i, p)
    \/ \E i \in 1 .. Len(cities) : UpdateWorkedTiles(i, 1)

SpecFound == InitFound /\ [][NextFound]_vars

\* path finding on a map of the configured size whose middle column holds
\* any number of water tiles and whose tile (0,1) may be a mountain: a warrior
\* on the first tile and a settler on any other tile that is not water
InitReach ==
    /\ width = ReachW
    /\ height = ReachH
    /\ gen = Generated(None)
    /\ config = [MAP_WIDTH |-> ReachW, MAP_HEIGHT |-> ReachH]
    /\ \E W \in SUBSET {t \in (0 .. ReachW - 1) \X (0 .. ReachH - 1) : t[1] = 1},
          k \in {"grassland", "mountain"} :
          terrain = [t \in (0 .. ReachW - 1) \X (0 .. ReachH - 1) |->
                        IF t \in W THEN "water"
                        ELSE IF t = <<0, 1>> THEN k ELSE "grassland"]
    /\ InitGame(2)
    /\ units = <<1, 2>>
    /\ \E p2 \in Passable \ {<<0, 0>>} :
          unit = [u \in {1, 2} |->
                     IF u = 1 THEN NewUnit("warrior", 1, <<0, 0>>, UnitHp)
                     ELSE NewUnit("settler", 2, p2, UnitHp)]
    /\ unit_ids = Rosters(2)

NextReach ==
    \/ \E u \in DOMAIN unit : \E to \in MoveTargets(unit[u]) : Move(u, to)
    \/ \E u \in DOMAIN unit : \E path \in CallerPaths(u) : MoveAlongPath(u, path)

SpecReach == InitReach /\ [][NextReach]_vars

\* the same map and units, moved by single steps, by clicks and by targeting
NextRequest ==
    \/ \E u \in DOMAIN unit : \E to \in MoveTargets(unit[u]) : Move(u, to)
    \/ \E u \in DOMAIN unit : \E g \in GivenReach(u) : \E t \in Tiles : ClickMove(u, t, g)
    \/ \E a, t \in DOMAIN unit : \E g \in GivenReach(a) : TargetWithPathMap(a, t, g)

SpecRequest == InitReach /\ [][NextRequest]_vars

\* path finding on a map whose size may differ from the configured size
\* MAP_WIDTH x MAP_HEIGHT, as with GameMap(width, height) for any width and
\* height: a warrior on the first tile and a settler on any other tile
ConfigSizes(n) == {n - 1, n, n + 1}

InitSized ==
    /\ width = ReachW
    /\ height = ReachH
    /\ gen = Generated(None)
    /\ \E cw \in ConfigSizes(ReachW), ch \in ConfigSizes(ReachH) :
          config = [MAP_WIDTH |-> cw, MAP_HEIGHT |-> ch]
    /\ terrain = [t \in (0 .. ReachW - 1) \X (0 .. ReachH - 1) |-> "grassland"]
    /\ InitGame(2)
    /\ units = <<1, 2>>
    /\ \E p2 \in Passable \ {<<0, 0>>} :
          unit = [u \in {1, 2} |->
                     IF u = 1 THEN NewUnit("warrior", 1, <<0, 0>>, UnitHp)
                     ELSE NewUnit("settler", 2, p2, UnitHp)]
    /\ unit_ids = Rosters(2)

SpecSized == InitSized /\ [][NextReach]_vars

\* map generation: GameMap(width, height, override_water = base_water) for
\* every size up to GenW x GenH; step 1 draws every cell at random, water when
\* random() <= base_water, so a ratio of 1 gives water everywhere
WaterRatios == {0, BASE_WATER_RATIO, 500, 1000}

InitGenerate ==
    /\ width \in 1 .. GenW
    /\ height \in 1 .. GenH
    /\ config = [MAP_WIDTH |-> width, MAP_HEIGHT |-> height]
    /\ terrain = <<>>
    /\ \E base_water \in WaterRatios :
       \E grid \in [(0 .. width - 1) \X (0 .. height - 1) -> {0, 1}] :
          /\ base_water >= 1000 => \A c \in DOMAIN grid : grid[c] = 1
          /\ gen = [phase |-> "smooth", grid |-> grid, passes |-> 0, tries |-> 0,
                    base_water |-> base_water]
    /\ InitGame(1)
    /\ units = <<>>
    /\ unit = <<>>
    /\ unit_ids = [p \in 1 .. 1 |-> <<>>]

NextGenerate ==
    \/ Smooth
    \/ \E c \in Tiles : TopUp(c)
    \/ CreateTiles
    \/ AddLandBiomes

SpecGenerate == InitGenerate /\ [][NextGenerate]_vars

(***************************************************************************)
(* Properties of the turn/round coordinator (SpecTurn)                     *)
(***************************************************************************)
FullMoves(u) == unit[u].moves = UNIT_TYPES(unit[u].unit_type).move_points

\* C1: round rotation. With N players, the end_turn calls that complete a
\* round are exactly every N-th call: such a call raises the round counter by
\* one, leaves every unit with its kind's maximum movement points, every
\* finished flag cleared and the first player current, and reports "round
\* advanced"; every other call leaves the round counter alone and reports
\* "round not advanced".
C1_RoundRotation ==
    [][calls' # calls =>
          IF calls' % Len(players) = 0
          THEN /\ turn' = turn + 1
               /\ \A u \in Range(units') : FullMoves(u)'
               /\ \A p \in Range(players) : ~turn_finished'[p]
               /\ current_player' = players[1]
               /\ last'.ret
          ELSE /\ turn' = turn
               /\ ~last'.ret]_vars

\* a game of several players, one of whose units had moved, right after the
\* call that completed its first round
C1_RoundCompleted ==
    /\ Len(players) >= 2
    /\ last.ret
    /\ turn = FirstTurn + 1
    /\ calls = Len(players)
    /\ \E u \in Range(units) : <<unit[u].x, unit[u].y>> \notin {<<0, 0>>, <<MapW - 1, MapH - 1>>}
    /\ \A u \in Range(units) : FullMoves(u)

C3_SequentialTurns ==
    /\ current_player = players[1]
    /\ [][/\ turn' # turn => (turn' = turn + 1 /\ current_player' = players[1])
          /\ (turn' = turn /\ current_player' # current_player) =>
                 IndexOf(players, current_player') = IndexOf(players, current_player) + 1]_vars

\* the last of three players is current in the first round
C3_LastPlayerCurrent ==
    /\ Len(players) = MaxPlayers
    /\ MaxPlayers >= 3
    /\ current_player = players[Len(players)]
    /\ turn = FirstTurn

\* the forward cyclic distance from the current player to player p
ForwardDistance(p) ==
    (IndexOf(players, p) - IndexOf(players, current_player)) % Len(players)

Unfinished == {p \in Range(players) : ~turn_finished[p]}

\* C4: an end_turn call made while another player is unfinished makes current
\* the unfinished player nearest in forward cyclic order from the ended
\* player, reports "round not advanced", and leaves the round counter, every
\* unit's movement points and every other player's finished flag unchanged.
C4_NextUnfinishedForward ==
    [][(calls' # calls /\ Unfinished \ {current_player} # {}) =>
          /\ current_player' \in Unfinished \ {current_player}
          /\ \A q \in Unfinished \ {current_player} :
                 ForwardDistance(current_player') <= ForwardDistance(q)
          /\ ~last'.ret
          /\ turn' = turn
          /\ \A u \in DOMAIN unit : unit'[u].moves = unit[u].moves
          /\ turn_finished'[current_player]
          /\ \A p \in Range(players) \ {current_player} :
                 turn_finished'[p] = turn_finished[p]]_vars

\* an end_turn call has passed the turn on while two players were still
\* unfinished, and a unit has spent movement points
C4_TurnPassedOn ==
    /\ last.op = "end_turn"
    /\ ~last.ret
    /\ calls = 1
    /\ Cardinality(Unfinished) = 2
    /\ \E u \in Range(units) : ~FullMoves(u)

(***************************************************************************)
(* Properties of the units (Spec)                                          *)
(***************************************************************************)
\* C5: a unit whose owner is not the current player cannot act: its move, its
\* attack and its found_city are rejected and change nothing.
C5_OnlyCurrentPlayerActs ==
    \A u \in Range(units) :
        OffTurn(u) =>
            /\ \A to \in MoveTargets(unit[u]) : move(unit[u], to[1], to[2]) = unit[u]
            /\ IsCombat(unit[u]) =>
                   \A t \in Range(units) \ {u} :
                       attack_unit(World, u, t) = [w |-> World, ret |-> FALSE]
            /\ ~IsCombat(unit[u]) =>
                   found_city(u) = [ret |-> FALSE, fault |-> FALSE, cities |-> cities,
                                    units |-> units, city_ids |-> city_ids,
                                    tile_claim |-> tile_claim]

\* C6: the movement points of every unit stay within 0 and its kind's maximum.
C6_MovesWithinBudget ==
    \A u \in DOMAIN unit :
        /\ 0 <= unit[u].moves
        /\ unit[u].moves <= UNIT_TYPES(unit[u].unit_type).move_points

\* a unit has walked its movement points down to 0 in a round after the first
C6_WalkedToZero ==
    \E u \in Range(units) :
        /\ unit[u].moves = 0
        /\ ~unit[u].attacked
        /\ turn > FirstTurn

\* C7: no two units of the game stand on the same tile.
C7_OneUnitPerTile ==
    \A u, v \in Range(units) :
        u # v => <<unit[u].x, unit[u].y>> # <<unit[v].x, unit[v].y>>

(***************************************************************************)
(* Properties of the tile-claim engine (SpecCity)                          *)
(***************************************************************************)
Adjacent8(s, t) == Abs(s[1] - t[1]) <= 1 /\ Abs(s[2] - t[2]) <= 1 /\ s # t

\* C8: every worked tile of a city is the city's centre or 8-adjacent to
\* another worked tile of the same city.
C8_Contiguity ==
    \A i \in 1 .. Len(cities) :
        \A t \in Range(cities[i].worked_tiles) :
            \/ t = <<cities[i].x, cities[i].y>>
            \/ \E s \in Range(cities[i].worked_tiles) : Adjacent8(s, t)

\* a city that grew beyond its centre's neighbourhood and was then cut back
\* to fewer tiles than it had
C8_GrownAndCutBack ==
    \E i \in 1 .. Len(cities) :
        /\ Len(cities[i].worked_tiles) = cities[i].population
        /\ cities[i].population \in 2 .. DefaultPopulation - 2
        /\ \E t \in Tiles :
               /\ tile_claim[t] = NoClaim
               /\ terrain[t] = "grassland"
               /\ \E s \in Range(cities[i].worked_tiles) : Adjacent8(s, t)

\* C9: no tile is in the worked tiles of two different cities.
C9_Exclusivity ==
    \A i, j \in 1 .. Len(cities) :
        i # j => Range(cities[i].worked_tiles) \cap Range(cities[j].worked_tiles) = {}

\* the candidate tiles of a city for a radius, as a set
Candidates(c, others, radius) ==
    {t \in Tiles :
        /\ Abs(t[1] - c.x) <= radius /\ Abs(t[2] - c.y) <= radius
        /\ t \notin Range(c.worked_tiles)
        /\ terrain[t] \notin {"water", "mountain"}
        /\ \A j \in 1 .. Len(others) : t \notin Range(others[j].worked_tiles)
        /\ \E s \in Range(c.worked_tiles) : Adjacent8(s, t)}

\* C10: an update of a city with any radius leaves it with at most as many
\* worked tiles as its population, and with fewer only when no candidate tile
\* remains for that radius.
C10_UpdateFillsPopulation ==
    \A i \in 1 .. Len(cities), radius \in 1 .. MaxRadius :
        LET c == update_worked_tiles(cities[i], tile_claim, OtherCities(i), radius).c
        IN /\ Len(c.worked_tiles) <= c.population
           /\ Len(c.worked_tiles) < c.population =>
                  Candidates(c, OtherCities(i), radius) = {}

\* a starved city: an update has left it with fewer worked tiles than its
\* population because the default radius holds no further candidate
C10_Starved ==
    \E i \in 1 .. Len(cities) :
        /\ Len(cities[i].worked_tiles) < cities[i].population
        /\ Len(cities[i].worked_tiles) > 1
        /\ Candidates(cities[i], OtherCities(i), 1) = {}
        /\ cities[i] = update_worked_tiles(cities[i], tile_claim, OtherCities(i), 1).c

(***************************************************************************)
(* Properties of combat (Spec)                                             *)
(***************************************************************************)
Fighters == {a \in Range(units) : IsCombat(unit[a])}

OrthogonallyAdjacent(r, q) == Abs(r.x - q.x) + Abs(r.y - q.y) = 1

\* C11: an attack is performed exactly when attacker and target have
\* different owners, the attacker has at least 1 movement point, it has not
\* attacked this round and the two are orthogonally adjacent; otherwise the
\* call returns failure and leaves attacker and target as they were.
C11_AttackLegality ==
    \A a \in Fighters : \A t \in Range(units) \ {a} :
        LET legal == /\ unit[a].owner # unit[t].owner
                     /\ unit[a].moves >= 1
                     /\ ~unit[a].attacked
                     /\ OrthogonallyAdjacent(unit[a], unit[t])
            res == attack_unit(World, a, t)
        IN /\ res.ret <=> legal
           /\ res.ret => res.w.unit[a].attacked
           /\ ~res.ret => res.w = World

\* a unit that walked its movement points down to 0 next to an enemy: the
\* attack is refused for want of movement points alone
C11_AdjacentButExhausted ==
    \E a \in Fighters : \E t \in Range(units) \ {a} :
        /\ unit[a].owner # unit[t].owner
        /\ OrthogonallyAdjacent(unit[a], unit[t])
        /\ unit[a].moves = 0
        /\ ~unit[a].attacked

\* C12: a successful attack takes exactly the attacker's attack value off the
\* target's hit points (a captured target is then healed to its kind's
\* maximum), sets the attacker's movement points to 0 and sets its attacked
\* flag, whatever movement points the attacker had.
C12_AttackEffect ==
    \A a \in Fighters : \A t \in Range(units) \ {a} :
        LET res == attack_unit(World, a, t)
            hp == unit[t].hp - unit[a].attack
        IN res.ret =>
              /\ res.w.unit[a].moves = 0
              /\ res.w.unit[a].attacked
              /\ res.w.unit[t].hp =
                     IF ~IsCombat(unit[t]) /\ hp <= 0
                     THEN UNIT_TYPES(unit[t].unit_type).hp ELSE hp

\* an attack is about to succeed for a unit that has more than one movement
\* point left, on a target already wounded by an earlier attack
C12_SecondBlow ==
    \E a \in Fighters : \E t \in Range(units) \ {a} :
        /\ attack_unit(World, a, t).ret
        /\ unit[a].moves > 1
        /\ unit[t].hp = WarriorAttack
        /\ turn > FirstTurn

\* C13: a unit whose attacked flag is set has 0 movement points and every
\* attack it attempts is rejected; a round advance clears the flag of every
\* unit of the game.
C13_OneAttackPerRound ==
    /\ [](\A a \in Fighters :
             unit[a].attacked =>
                 /\ unit[a].moves = 0
                 /\ \A t \in Range(units) \ {a} : ~attack_unit(World, a, t).ret)
    /\ [][turn' # turn => \A a \in Range(units') : ~unit'[a].attacked]_vars

\* a unit that attacked in the first round has its flag cleared and stands
\* next to an enemy in the second round
C13_AttackAgain ==
    \E a \in Fighters : \E t \in Range(units) \ {a} :
        /\ turn > FirstTurn
        /\ ~unit[a].attacked
        /\ unit[t].hp < 2 * WarriorAttack
        /\ attack_unit(World, a, t).ret

Roster(p) == Range(unit_ids[p])

\* C14: a combat unit whose hit points have dropped to 0 or below is neither
\* in the game's unit list nor on any player's roster.
C14_DeadUnitsLeaveRosters ==
    \A u \in DOMAIN unit :
        (IsCombat(unit[u]) /\ unit[u].hp <= 0) =>
            /\ ~InGame(u)
            /\ \A p \in DOMAIN unit_ids : u \notin Roster(p)

\* C15: a non-combat unit of the game is on the roster of its owner and on no
\* other roster, also after a capture has changed its owner.
C15_CapturedUnitsChangeRoster ==
    \A u \in Range(units) :
        ~IsCombat(unit[u]) =>
            \A p \in DOMAIN unit_ids : u \in Roster(p) <=> p = unit[u].owner

(***************************************************************************)
(* Properties of found_city (SpecFound)                                    *)
(***************************************************************************)
Chebyshev(x1, y1, x2, y2) ==
    IF Abs(x1 - x2) >= Abs(y1 - y2) THEN Abs(x1 - x2) ELSE Abs(y1 - y2)

Founders == {u \in Range(units) : ~IsCombat(unit[u])}

FoundingLegal(r) ==
    /\ r.unit_type = "settler"
    /\ r.owner = current_player
    /\ is_tile_passable(r.x, r.y)
    /\ \A j \in 1 .. Len(cities) :
           Chebyshev(cities[j].x, cities[j].y, r.x, r.y) > MIN_CITY_SPACING

C17_CitySpacing ==
    \A i, j \in 1 .. Len(cities) :
        i # j =>
            /\ \/ Abs(cities[i].x - cities[j].x) > MIN_CITY_SPACING
               \/ Abs(cities[i].y - cities[j].y) > MIN_CITY_SPACING
            /\ <<cities[i].x, cities[i].y>> # <<cities[j].x, cities[j].y>>
            /\ Range(cities[i].worked_tiles) \cap Range(cities[j].worked_tiles) = {}

\* two cities stand at the two ends of the map
C17_TwoCities ==
    /\ Len(cities) = 2
    /\ units = <<>>

\* C18: found_city never ends in a fault: a refused founding returns failure.
C18_RefusalWithoutFault ==
    \A u \in Founders : ~found_city(u).fault

(***************************************************************************)
(* Properties of compute_reachable (SpecReach)                             *)
(***************************************************************************)
Step(s, t) == Abs(s[1] - t[1]) + Abs(s[2] - t[2]) = 1

Position(u) == <<unit[u].x, unit[u].y>>

\* the tiles that a walk of at most k orthogonal steps over in-bounds tiles
\* that are not water can end on
RECURSIVE WithinSteps(_, _)
WithinSteps(start, k) ==
    IF k = 0 THEN {start}
    ELSE LET R == WithinSteps(start, k - 1)
         IN R \cup {t \in Tiles : terrain[t] # "water" /\ \E s \in R : Step(s, t)}

Occupied(u) == {Position(v) : v \in Range(units) \ {u}}

\* C19: compute_reachable returns exactly the tiles other than the unit's own
\* that no other unit occupies and that a walk of at most `moves` orthogonal
\* steps over in-bounds tiles that are not water reaches; occupied tiles are
\* walked through; with 0 movement points nothing is returned.
C19_ReachableSet ==
    \A u \in Range(units) :
        LET res == compute_reachable(u)
        IN /\ ~res.fault
           /\ Range(res.valid_moves) =
                 (WithinSteps(Position(u), unit[u].moves) \ {Position(u)}) \ Occupied(u)
           /\ Cardinality(Range(res.valid_moves)) = Len(res.valid_moves)
           /\ unit[u].moves = 0 => res.valid_moves = <<>>

\* a unit reaches a tile behind another unit that stands in its way, and the
\* water keeps some tile within Manhattan distance `moves` out of reach
C19_PastAnotherUnit ==
    \E u \in Range(units) :
        LET vm == Range(compute_reachable(u).valid_moves)
        IN /\ unit[u].moves = 2
           /\ \E v \in Range(units) \ {u} :
                  /\ Step(Position(u), Position(v))
                  /\ \E t \in vm : Step(Position(v), t) /\ ~Step(Position(u), t)
                                    /\ \A s \in Tiles \ {Position(v)} :
                                           ~(Step(Position(u), s) /\ Step(s, t))
           /\ \E t \in Tiles :
                  /\ terrain[t] # "water"
                  /\ Abs(t[1] - unit[u].x) + Abs(t[2] - unit[u].y) <= unit[u].moves
                  /\ t \notin vm \cup Occupied(u) \cup {Position(u)}

\* the least number of steps of a walk from start to t
RECURSIVE StepDistance(_, _, _)
StepDistance(start, t, k) ==
    IF t \in WithinSteps(start, k) THEN k ELSE StepDistance(start, t, k + 1)

\* the directions in the order west, east, north, south
WENS == <<<<-1, 0>>, <<1, 0>>, <<0, -1>>, <<0, 1>>>>

\* the tiles visited by walking the directions ds from start
Walk(start, ds) ==
    [i \in 1 .. Len(ds) + 1 |->
        <<start[1] + IF i = 1 THEN 0 ELSE
              LET RECURSIVE sx(_)
                  sx(j) == IF j = 0 THEN 0 ELSE WENS[ds[j]][1] + sx(j - 1)
              IN sx(i - 1),
          start[2] + IF i = 1 THEN 0 ELSE
              LET RECURSIVE sy(_)
                  sy(j) == IF j = 0 THEN 0 ELSE WENS[ds[j]][2] + sy(j - 1)
              IN sy(i - 1)>>]

ValidWalk(p) == \A i \in 1 .. Len(p) : p[i] \in Tiles /\ terrain[p[i]] # "water"

\* the shortest walks from start to t
ShortestWalks(start, t) ==
    LET d == StepDistance(start, t, 0)
    IN {ds \in [1 .. d -> 1 .. 4] :
           LET p == Walk(start, ds) IN ValidWalk(p) /\ p[Len(p)] = t}

\* ds comes before es, or equals it, in the order of the directions
LexLeq(ds, es) ==
    \/ ds = es
    \/ \E i \in 1 .. Len(ds) :
          /\ ds[i] < es[i]
          /\ \A j \in 1 .. i - 1 : ds[j] = es[j]

\* C20: the path map has exactly the reachable tiles as keys; the path of a
\* tile t starts at the unit's tile, ends at t, moves one orthogonal step at a
\* time, holds no water tile and has as many steps as the shortest walk to t;
\* among the shortest walks it is the first in the direction order west,
\* east, north, south.
C20_ShortestPaths ==
    \A u \in Range(units) :
        LET res == compute_reachable(u)
            pm == res.path_map
            start == Position(u)
        IN /\ DOMAIN pm = Range(res.valid_moves)
           /\ \A t \in DOMAIN pm :
                 LET p == pm[t]
                 IN /\ p[1] = start
                    /\ p[Len(p)] = t
                    /\ \A i \in 1 .. Len(p) - 1 : Step(p[i], p[i + 1])
                    /\ ValidWalk(p)
                    /\ Len(p) - 1 = StepDistance(start, t, 0)
                    /\ \E ds \in ShortestWalks(start, t) :
                          /\ Walk(start, ds) = p
                          /\ \A es \in ShortestWalks(start, t) : LexLeq(ds, es)

\* a unit that has walked one step reaches, with its last movement point, a
\* tile with at least two shortest walks, on a map where water lies between
\* the unit and the tile
C20_TieBroken ==
    \E u \in Range(units) :
        \E t \in DOMAIN compute_reachable(u).path_map :
            /\ unit[u].moves = 3
            /\ Cardinality(ShortestWalks(Position(u), t)) >= 2
            /\ StepDistance(Position(u), t, 0) = 3
            /\ \E w \in Tiles :
                  /\ terrain[w] = "water"
                  /\ Abs(w[1] - unit[u].x) + Abs(w[2] - unit[u].y)
                        + Abs(w[1] - t[1]) + Abs(w[2] - t[2])
                     = Abs(t[1] - unit[u].x) + Abs(t[2] - unit[u].y)

(***************************************************************************)
(* Properties of movement (SpecReach, Spec)                                *)
(***************************************************************************)
\* C21: walking a unit along the path returned for a reachable tile t brings
\* it to t, takes as many steps as the path has beyond its first entry and
\* leaves the unit with that many movement points fewer, never below 0.
C21_PathCost ==
    \A u \in Range(units) :
        LET pm == compute_reachable(u).path_map
        IN \A t \in DOMAIN pm :
              LET w == move_along_path(unit[u], pm[t], 2)
              IN /\ <<w.r.x, w.r.y>> = t
                 /\ w.steps = Len(pm[t]) - 1
                 /\ w.r.moves = unit[u].moves - (Len(pm[t]) - 1)
                 /\ w.r.moves >= 0

\* a unit that has spent a part of its movement points holds a path that
\* uses up all the points it has left
C21_LastPointsSpent ==
    \E u \in Range(units) :
        /\ unit[u].moves \in 2 .. UNIT_TYPES(unit[u].unit_type).move_points - 1
        /\ \E t \in DOMAIN compute_reachable(u).path_map :
               move_along_path(unit[u], compute_reachable(u).path_map[t], 2).r.moves = 0

ImpassableTerrain == {"water", "mountain"}

\* C22: no step puts a unit on a water tile or on a mountain tile.
C22_NoStepOntoWaterOrMountain ==
    [][\A u \in DOMAIN unit :
          Position(u)' # Position(u) => terrain[Position(u)'] \notin ImpassableTerrain]_vars

\* C23: a single-step move succeeds exactly when the unit has at least 1
\* movement point, the target is at Manhattan distance 1 and the map's
\* passability check accepts it; a successful move puts the unit on the
\* target with 1 movement point fewer, a refused one changes nothing.
C23_SingleStep ==
    \A u \in Range(units) : \A to \in MoveTargets(unit[u]) :
        LET r == unit[u]
            ok == can_move(r, to[1], to[2])
            after == move(r, to[1], to[2])
        IN /\ ok <=> /\ r.moves >= 1
                      /\ Step(<<r.x, r.y>>, to)
                      /\ InBounds(to[1], to[2])
                      /\ terrain[to] # "water"
           /\ ok => after = [r EXCEPT !.x = to[1], !.y = to[2], !.moves = r.moves - 1]
           /\ ~ok => after = r

\* a unit with movement points left that has moved stands next to a water
\* tile and in a corner of the map: some of its moves are refused for the
\* tile alone, others succeed
C23_RefusedForTheTile ==
    \E u \in Range(units) :
        /\ unit[u].moves \in 1 .. UNIT_TYPES(unit[u].unit_type).move_points - 1
        /\ \E to \in MoveTargets(unit[u]) :
               /\ InBounds(to[1], to[2])
               /\ terrain[to] = "water"
               /\ Step(Position(u), to)
        /\ \E to \in MoveTargets(unit[u]) : can_move(unit[u], to[1], to[2])

(***************************************************************************)
(* Properties of the automatic end of turn (SpecTurn)                      *)
(***************************************************************************)
Exhausted ==
    \A u \in Range(units) : unit[u].owner = current_player => unit[u].moves = 0

\* C24: a check made when every unit of the current player has 0 movement
\* points, whatever units the player owns, ends that player's turn; a check
\* made when some unit of the player has movement points left changes nothing
\* and returns False.
C24_AutoEndOnExhaustion ==
    [][(last'.op = "auto_end" /\ (last' # last \/ calls' # calls)) =>
          IF Exhausted
          THEN calls' = calls + 1
          ELSE last'.ret = FALSE /\ UNCHANGED <<turnVars, unit>>]_vars

(***************************************************************************)
(* Properties of the snapshot (SpecSnapshot)                               *)
(***************************************************************************)
\* C25: the game read back from the snapshot of a game has the same units in
\* the same order (id, owner, kind, position, movement points, hit points,
\* attack, selection), the same players with the same rosters and resources,
\* the same current player and the same round number.
C25_SnapshotRoundTrip ==
    LET g == Game_from_dict(Game_to_dict)
    IN /\ g.units = units
       /\ \A u \in Range(units) :
             /\ g.unit[u].owner = unit[u].owner
             /\ g.unit[u].unit_type = unit[u].unit_type
             /\ <<g.unit[u].x, g.unit[u].y>> = <<unit[u].x, unit[u].y>>
             /\ g.unit[u].moves = unit[u].moves
             /\ g.unit[u].hp = unit[u].hp
             /\ g.unit[u].attack = unit[u].attack
             /\ g.unit[u].selected = unit[u].selected
       /\ g.players = players
       /\ g.unit_ids = unit_ids
       /\ g.city_ids = city_ids
       /\ \A p \in Range(players) : g.resources[p] = DefaultResources
       /\ g.current_player = current_player
       /\ g.turn = turn

\* a game read back on the second player's turn, with a unit that has no
\* movement point left and a unit that has lost hit points
C25_RestoredMidGame ==
    /\ last.op = "from_dict"
    /\ current_player = 2
    /\ \E u \in Range(units) : unit[u].moves = 0
    /\ \E u \in Range(units) : unit[u].hp = WarriorAttack

(***************************************************************************)
(* Properties of the map (SpecGenerate)                                    *)
(***************************************************************************)
MapReady == gen.phase = "done"

OnCorner(x, y) == x \in {0, width - 1} /\ y \in {0, height - 1}

OnEdge(x, y) == x \in {0, width - 1} \/ y \in {0, height - 1}

\* tile lookup finds exactly the tiles inside the map, and neighbour
\* enumeration exactly the tiles of the map at Manhattan distance 1
BoundsChecked ==
    \A x \in -1 .. width, y \in -1 .. height :
        /\ get_tile(x, y) = NoTile <=> <<x, y>> \notin Tiles
        /\ <<x, y>> \in Tiles =>
              /\ get_tile(x, y) = [x |-> x, y |-> y, terrain |-> terrain[<<x, y>>]]
              /\ {<<n.x, n.y>> : n \in Range(neighbors(x, y))} =
                     {t \in Tiles : Step(<<x, y>>, t)}
              /\ \A n \in Range(neighbors(x, y)) : n = get_tile(n.x, n.y)
              /\ Cardinality(Range(neighbors(x, y))) = Len(neighbors(x, y))

NeighbourCounts ==
    \A x \in 0 .. width - 1, y \in 0 .. height - 1 :
        Len(neighbors(x, y)) =
            IF OnCorner(x, y) THEN 2 ELSE IF OnEdge(x, y) THEN 3 ELSE 4

\* C26 as stated: on every map the lookup is bounds-checked, the neighbours
\* are the in-bounds tiles at Manhattan distance 1, and a corner tile has 2
\* neighbours, another edge tile 3 and an interior tile 4.
C26_NeighbourCountsOnEveryMap ==
    MapReady => BoundsChecked /\ NeighbourCounts

\* C26: on every map the lookup is bounds-checked and the neighbours are the
\* in-bounds tiles at Manhattan distance 1; on a map at least 2 tiles wide and
\* 2 tiles high a corner tile has 2 neighbours, another edge tile 3 and an
\* interior tile 4.
C26_MapQueries ==
    MapReady => /\ BoundsChecked
                /\ (width >= 2 /\ height >= 2) => NeighbourCounts

\* a generated map with corner, edge and interior tiles, water and land
C26_MapWithInterior ==
    /\ MapReady
    /\ width >= 3 /\ height >= 3
    /\ \E t \in Tiles : terrain[t] = "water"
    /\ \E t \in Tiles : terrain[t] = "forest"

\* C27: a generated map has at least 0.5 x R x W x H water tiles.
C27_WaterFloor ==
    MapReady =>
        2000 * Cardinality({t \in Tiles : terrain[t] = "water"})
            >= gen.base_water * width * height

\* the water cells among the up to 8 cells around c, c itself not counted
MooreWater(grid, c) ==
    Cardinality({n \in Tiles \ {c} : /\ Abs(n[1] - c[1]) <= 1
                                      /\ Abs(n[2] - c[2]) <= 1
                                      /\ grid[n] = 1})

\* C28: a smoothing pass makes a cell water exactly when more than 3 of the
\* cells around it, the cell itself not counted, were water before the pass.
C28_SmoothingRule ==
    [][gen'.passes = gen.passes + 1 =>
          \A c \in Tiles : gen'.grid[c] = 1 <=> MooreWater(gen.grid, c) > 3]_vars

\* C29: the starting-tile search returns, for every count asked for, that many
\* pairwise distinct tiles, each passable and with a passable orthogonal
\* neighbour.
C29_StartingTiles ==
    MapReady =>
        \A count \in 1 .. MaxCount :
            LET found == _find_starting_tiles(count)
            IN /\ Len(found) = count
               /\ Cardinality(Range(found)) = count
               /\ \A t \in Range(found) :
                     /\ is_tile_passable(t[1], t[2])
                     /\ \E n \in Tiles : Step(t, n) /\ is_tile_passable(n[1], n[2])

(***************************************************************************)
(* Properties of players added to a game (SpecPlayers)                     *)
(***************************************************************************)
\* the players other than the current one have all finished their turn
OthersFinished ==
    \A p \in Range(players) \ {current_player} :
        p \in DOMAIN turn_finished /\ turn_finished[p]

\* C30: an end of turn advances the round exactly when, with the current
\* player marked finished, every player of the player table is finished,
\* players registered with add_player included.
C30_RoundNeedsEveryPlayer ==
    [][calls' = calls + 1 => (turn' = turn + 1 <=> OthersFinished)]_vars

ValidSteps(r, path) ==
    LET At(j) == IF j = 0 THEN <<r.x, r.y>> ELSE path[j + 1]
        StepOk(j) == /\ j <= r.moves
                     /\ Step(At(j - 1), At(j))
                     /\ is_tile_passable(At(j)[1], At(j)[2])
    IN CHOOSE k \in 0 .. Len(path) - 1 :
          /\ \A j \in 1 .. k : StepOk(j)
          /\ k = Len(path) - 1 \/ ~StepOk(k + 1)

\* C32: a walk along a path takes the steps in order up to the first one that
\* is not orthogonally adjacent, not passable or not affordable: the unit ends
\* on the last step taken, the count returned is the number of steps taken
\* and the movement points drop by that count; nothing else of the unit
\* changes.
C32_PartialMove ==
    \A u \in Range(units) : \A path \in CallerPaths(u) :
        LET w == move_along_path(unit[u], path, 2)
            k == ValidSteps(unit[u], path)
        IN /\ w.steps = k
           /\ w.r = [unit[u] EXCEPT !.x = IF k = 0 THEN unit[u].x ELSE path[k + 1][1],
                                    !.y = IF k = 0 THEN unit[u].y ELSE path[k + 1][2],
                                    !.moves = unit[u].moves - k]

\* a unit left with one movement point holds a path of two good steps, of
\* which it takes the first only
C32_WalkCutShort ==
    \E u \in Range(units) : \E path \in CallerPaths(u) :
        /\ unit[u].moves = 1
        /\ Len(path) = 3
        /\ Step(path[2], path[3])
        /\ is_tile_passable(path[3][1], path[3][2])
        /\ move_along_path(unit[u], path, 2).steps = 1

(***************************************************************************)
(* Properties of move requests (SpecRequest)                               *)
(***************************************************************************)
\* the path map names tile for unit a at a cost above its movement points
OverBudget(a, path_map, tile) ==
    tile \in DOMAIN path_map /\ Len(path_map[tile]) - 1 > unit[a].moves

C34_FinishedFlagsRestored ==
    LET g == Game_from_dict(Game_to_dict)
    IN /\ g.current_player = current_player
       /\ \A p \in Range(players) : g.turn_finished[p] = turn_finished[p]

(***************************************************************************)
(* Properties of expand and contract (SpecCity)                            *)
(***************************************************************************)
\* tile s comes no later than tile t in the scan of the radius window, dx
\* ascending and then dy ascending
ScanLeq(s, t) == s[1] < t[1] \/ (s[1] = t[1] /\ s[2] <= t[2])

\* C35: every tile that expand adds to a city is, among the candidate tiles at
\* that moment, one of least Manhattan distance to the centre, and of these
\* the first in scan order; with radius 1, no diagonal neighbour of the centre
\* is added while an orthogonal neighbour is a candidate.
C35_NearestFirst ==
    \A i \in 1 .. Len(cities), radius \in 1 .. MaxRadius :
        LET c == cities[i]
            e == expand_worked_tiles(c, tile_claim, OtherCities(i), radius).c
        IN /\ SubSeq(e.worked_tiles, 1, Len(c.worked_tiles)) = c.worked_tiles
           /\ \A k \in Len(c.worked_tiles) + 1 .. Len(e.worked_tiles) :
                 LET before == [c EXCEPT !.worked_tiles = SubSeq(e.worked_tiles, 1, k - 1)]
                     chosen == e.worked_tiles[k]
                     cand == Candidates(before, OtherCities(i), radius)
                 IN /\ chosen \in cand
                    /\ \A t \in cand :
                          \/ Manhattan(c, chosen) < Manhattan(c, t)
                          \/ Manhattan(c, chosen) = Manhattan(c, t) /\ ScanLeq(chosen, t)
                    /\ (radius = 1 /\ Manhattan(c, chosen) = 2) =>
                          \A t \in cand : Manhattan(c, t) = 2

\* a city whose expansion took two orthogonal neighbours of the centre, the
\* first in scan order first, and then a diagonal one
C35_OrthogonalThenDiagonal ==
    \E i \in 1 .. Len(cities) :
        LET c == cities[i]
            w == c.worked_tiles
        IN /\ Len(w) >= 4
           /\ Manhattan(c, w[2]) = 1 /\ Manhattan(c, w[3]) = 1
           /\ ScanLeq(w[2], w[3])
           /\ Manhattan(c, w[4]) = 2 /\ Adjacent8(<<c.x, c.y>>, w[4])

\* C36: for every population p >= 1, contract leaves a city the first p of its
\* worked tiles (all of them when it has no more than p), so the founding
\* tile stays; a removed tile loses its claim exactly when the claim was this
\* city's, and the claims of other cities and of the tiles kept are as before.
C36_ContractKeepsCentre ==
    \A i \in 1 .. Len(cities), p \in 1 .. MaxPop :
        LET c == [cities[i] EXCEPT !.population = p]
            w == c.worked_tiles
            keep == IF Len(w) <= p THEN Len(w) ELSE p
            res == contract_worked_tiles(c, tile_claim)
            removed == {w[k] : k \in keep + 1 .. Len(w)}
        IN /\ res.c = [c EXCEPT !.worked_tiles = SubSeq(w, 1, keep)]
           /\ res.c.worked_tiles[1] = <<c.x, c.y>>
           /\ \A t \in Tiles :
                 res.cl[t] = IF t \in removed /\ tile_claim[t].city_id = c.city_id
                             THEN NoClaim ELSE tile_claim[t]

\* two cities, one cut back to its founding tile with a free tile next to it,
\* the other still with the claims of all its worked tiles
C36_CutBackToCentre ==
    \E i, j \in 1 .. Len(cities) :
        /\ i # j
        /\ cities[i].population = 1
        /\ cities[i].worked_tiles = <<<<cities[i].x, cities[i].y>>>>
        /\ \E t \in Tiles : /\ Adjacent8(<<cities[i].x, cities[i].y>>, t)
                             /\ terrain[t] = "grassland"
                             /\ tile_claim[t] = NoClaim
        /\ Len(cities[j].worked_tiles) >= 2
        /\ \A t \in Range(cities[j].worked_tiles) : tile_claim[t].city_id = cities[j].city_id

(***************************************************************************)
(* Properties of the worked tiles (SpecFound)                              *)
(***************************************************************************)
\* C37: every worked tile of a city other than its centre is a tile of the
\* map within Chebyshev distance radius of the centre whose terrain is
\* neither water nor mountain, and no city works a water tile, its centre
\* included.
C37_WorkedTilesLegal ==
    \A i \in 1 .. Len(cities) :
        LET c == cities[i]
        IN \A t \in Range(c.worked_tiles) :
              /\ t \in Tiles
              /\ terrain[t] # "water"
              /\ t # <<c.x, c.y>> =>
                    /\ Chebyshev(t[1], t[2], c.x, c.y) <= DefaultRadius
                    /\ terrain[t] \notin ImpassableTerrain

\* a city next to a water or mountain tile that works its other neighbours
\* and has population to spare
C37_ImpassableNeighbourSkipped ==
    \E i \in 1 .. Len(cities) :
        LET c == cities[i]
        IN /\ Len(c.worked_tiles) >= 3
           /\ Len(c.worked_tiles) < c.population
           /\ \E t \in Tiles : /\ Adjacent8(<<c.x, c.y>>, t)
                                /\ terrain[t] \in ImpassableTerrain

(***************************************************************************)
(* Properties of hit points (Spec)                                         *)
(***************************************************************************)
\* C38: every unit of the game's unit list has between 1 hit point and the
\* hit points of its kind: a combat unit brought to 0 or below leaves the list
\* in the same step and a captured unit is back at its kind's hit points in
\* the same step; and no step other than the founding of a city takes a
\* non-combat unit off the list.
C38_HitPointsInRange ==
    /\ [](\A u \in Range(units) : unit[u].hp \in 1 .. UNIT_TYPES(unit[u].unit_type).hp)
    /\ [][\A u \in Range(units) :
             (~IsCombat(unit[u]) /\ cities' = cities) => u \in Range(units')]_vars
    /\ [][\A u \in Range(units) :
             unit'[u].hp <= 0 => (IsCombat(unit[u]) /\ u \notin Range(units'))]_vars

\* a settler taken by the warrior that struck it twice, and back at full hit
\* points
C38_SettlerTaken ==
    /\ 2 \in Range(units)
    /\ ~IsCombat(unit[2])
    /\ unit[2].owner = 1
    /\ unit[2].hp = UnitHp
    /\ unit[1].attacked
    /\ turn > FirstTurn

(***************************************************************************)
(* Properties of target_enemy_unit (Spec)                                  *)
(***************************************************************************)
\* C39: target_enemy_unit, called with the path map of the attacker, returns
\* True exactly when it attacked the target, and then the attacker stands
\* orthogonally next to the target, has no movement point left and is
\* deselected; when it returns False no attack was made, the target has the
\* hit points and the owner it had, and the attacker is where it was with the
\* movement points it had.
C39_MoveThenAttack ==
    \A a \in Fighters : \A t \in Range(units) \ {a} :
        LET res == target_enemy_unit(World, a, t, compute_reachable(a).path_map)
            ra == res.w.unit[a]
            rt == res.w.unit[t]
        IN IF res.ret
           THEN /\ OrthogonallyAdjacent(ra, rt)
                /\ ra.moves = 0 /\ ~ra.selected /\ ra.attacked
                /\ rt.hp # unit[t].hp \/ rt.owner # unit[t].owner
           ELSE /\ rt = unit[t]
                /\ ra.attacked = unit[a].attacked
                /\ <<ra.x, ra.y>> = <<unit[a].x, unit[a].y>>
                /\ ra.moves = unit[a].moves

(***************************************************************************)
(* Properties of compute_reachable on a map of any size (SpecSized)        *)
(***************************************************************************)
\* C40: whatever the size of the map, compute_reachable ends without a fault
\* and returns tiles of the map only.
C40_BoundedByMap ==
    \A u \in Range(units) :
        LET res == compute_reachable(u)
        IN /\ ~res.fault
           /\ Range(res.valid_moves) \subseteq Tiles
           /\ DOMAIN res.path_map \subseteq Tiles

====
